---- MODULE Spec2Model ----
(***************************************************************************)
(* A model of the WhatsApp webhook pipeline of api-listener:               *)
(*   main.py               webhook_handler                                 *)
(*   core/message_manager  process_message                                 *)
(*   core/ai_processor     extract_user_data_with_ai                       *)
(*   core/gsheets_client   GSheetsClient                                   *)
(* Python/JSON values are tagged records, so that values of different      *)
(* Python types can be compared.  Python None and JSON null are one value. *)
(***************************************************************************)
EXTENDS Integers, Sequences, FiniteSets, TLC

(* ------------------------------ values -------------------------------- *)

Null == [t |-> "null"]
Missing == [t |-> "missing"]
Str(s) == [t |-> "str", s |-> s]
Num(n) == [t |-> "num", n |-> n]
Bool(b) == [t |-> "bool", b |-> b]
Obj(m) == [t |-> "obj", m |-> m]
Exc(type, msg) == [t |-> "exc", type |-> type, msg |-> msg]

IsExc(v) == v.t = "exc"

EmptyObj == Obj([k \in {} |-> Null])

\* All objects whose keys are among `keys` and whose value for a key k is
\* drawn from vals[k].
ObjectsOver(keys, vals) ==
  UNION { { Obj(f) : f \in { g \in [ks -> UNION { vals[k] : k \in keys }] :
                              \A k \in ks : g[k] \in vals[k] } }
          : ks \in SUBSET keys }

\* Python truth value of a value (bool(v)).
Truthy(v) ==
  CASE v.t = "null" -> FALSE
    [] v.t = "str"  -> v.s # ""
    [] v.t = "num"  -> v.n # 0
    [] v.t = "bool" -> v.b
    [] v.t = "obj"  -> DOMAIN v.m # {}
    [] OTHER        -> TRUE

\* d.get(k, default): AttributeError on anything that is not a dict.
PyGet(d, k, default) ==
  IF d.t # "obj" THEN Exc("AttributeError", "get")
  ELSE IF k \in DOMAIN d.m THEN d.m[k] ELSE default

\* x or y
PyOr(x, y) == IF Truthy(x) THEN x ELSE y

(* ------------------------- message_manager.py -------------------------- *)

target_group_id == "120363403986445201@g.us"

\* Validation 1 (line 36) accepting any chat that has an id.
is_target_group_any(remote_jid) == remote_jid # Null

\* Validation 1 (line 36): remote_jid == target_group_id.
is_target_group(remote_jid) == remote_jid = Str(target_group_id)

\* The body of the try block of process_message: the returned value, or the
\* exception that leaves the block.
process_message_try(payload) ==
  LET data == PyGet(payload, "data", EmptyObj) IN
  IF IsExc(data) THEN data ELSE
  LET key == PyGet(data, "key", EmptyObj)
      message == PyGet(data, "message", EmptyObj) IN
  IF IsExc(key) THEN key ELSE
  IF IsExc(message) THEN message ELSE
  LET remote_jid == PyGet(key, "remoteJid", Null) IN
  IF IsExc(remote_jid) THEN remote_jid ELSE
  IF ~is_target_group(remote_jid) THEN Null ELSE
  LET participant_lid == PyGet(key, "participantLid", Null) IN
  IF IsExc(participant_lid) THEN participant_lid ELSE
  IF participant_lid = Null THEN Null ELSE
  LET conversation == PyGet(message, "conversation", Null) IN
  IF IsExc(conversation) THEN conversation ELSE
  IF conversation = Null THEN Null ELSE conversation

\* process_message without its except clause.
process_message_uncaught(payload) == process_message_try(payload)

\* process_message: except Exception -> None.
process_message(payload) ==
  LET r == process_message_try(payload) IN
  IF IsExc(r) THEN Null ELSE r

(* --------------------------- ai_processor.py --------------------------- *)

\* default_response (lines 38-42)
default_response ==
  Obj([k \in {"full_name", "phone_number", "id_document"} |-> Null])

\* json.loads on the stripped reply: a reply is prose, a fenced code block
\* around JSON, or JSON text carrying `value`.
json_loads(text) ==
  IF text.kind = "json" THEN text.value
  ELSE Exc("JSONDecodeError", "Expecting value")

\* The inner try block (lines 62-78): parse, then project the three keys.
parse_reply(ai_response_text) ==
  LET extracted == json_loads(ai_response_text) IN
  IF IsExc(extracted) THEN default_response
  ELSE
    LET fn == PyGet(extracted, "full_name", Null)
        pn == PyGet(extracted, "phone_number", Null)
        idd == PyGet(extracted, "id_document", Null) IN
    IF IsExc(fn) THEN fn
    ELSE Obj([k \in {"full_name", "phone_number", "id_document"} |->
               CASE k = "full_name" -> fn
                 [] k = "phone_number" -> pn
                 [] OTHER -> idd])

\* The outer try block (lines 44-78).  `ai` is what the Gemini call does:
\* it raises, or it answers with response.text = ai.text (None when the
\* answer carries no text).
extract_try(ai) ==
  IF ai.call = "raise" THEN Exc("APIError", "gemini")
  ELSE IF ai.text = Null THEN Exc("AttributeError", "strip")
  ELSE parse_reply(ai.text)

\* extract_user_data_with_ai: except Exception -> default_response.
extract_user_data_with_ai(ai) ==
  LET r == extract_try(ai) IN
  IF IsExc(r) THEN default_response ELSE r

(* --------------------------- gsheets_client.py ------------------------- *)

\* What a call to Google (oauth2client / gspread) does: it succeeds, or it
\* raises a library exception.  gspread raises SpreadsheetNotFound with or
\* without a message, depending on its version.
RemoteOk == [t |-> "ok"]
OpenErrors ==
  { Exc("RefreshError", "invalid_grant"), Exc("SpreadsheetNotFound", "") }
ApiErrors == { Exc("APIError", "503") }

\* GSheetsClient.__init__ without the checks of lines 30 and 44.
GSheetsClient_unchecked(e, remote) ==
  IF IsExc(remote) THEN remote ELSE [t |-> "client", sheet_name |-> e.sheet_name]

\* GSheetsClient.__init__ (lines 19-58) in environment `e`: the client, or the
\* exception the constructor raises.
GSheetsClient(e, remote) ==
  IF ~Truthy(e.creds_path) \/ ~Truthy(e.sheet_name)
  THEN Exc("ValueError", "GOOGLE_SHEETS_CREDENTIALS_PATH and SHEET_NAME must be defined")
  ELSE IF ~e.creds_file_exists
  THEN Exc("FileNotFoundError", "Credentials file not found")
  ELSE IF IsExc(remote) THEN remote
  ELSE [t |-> "client", sheet_name |-> e.sheet_name]

\* get_worksheet (lines 60-76): every failure becomes a ValueError.
get_worksheet(worksheet_title, remote) ==
  IF IsExc(remote) THEN Exc("ValueError", "Worksheet not found")
  ELSE [t |-> "worksheet"]

\* strftime("%Y-%m-%d %H:%M:%S") of the wall clock, second precision.
Timestamp(now) == [t |-> "time", n |-> now]

\* row_data (lines 112-117)
row_data(now, full_name, phone_number, id_document) ==
  << Timestamp(now), PyOr(full_name, Str("")), PyOr(phone_number, Str("")),
     PyOr(id_document, Str("")) >>

\* Line 103 with all() for any().
all_fields_empty_all(full_name, phone_number, id_document) ==
  ~(Truthy(full_name) /\ Truthy(phone_number) /\ Truthy(id_document))

\* The test of line 103: not any([full_name, phone_number, id_document]).
all_fields_empty(full_name, phone_number, id_document) ==
  ~(Truthy(full_name) \/ Truthy(phone_number) \/ Truthy(id_document))

\* append_row as an update of a fixed row.
append_row_update(sheet, row) ==
  IF Len(sheet) < 2 THEN Append(sheet, row) ELSE [sheet EXCEPT ![2] = row]

\* ws.append_row(row_data) (line 120): the row goes after the last row.
append_row(sheet, row) == Append(sheet, row)

\* insert_row as an update of row 1.
insert_row_update(sheet, row) ==
  IF Len(sheet) = 0 THEN << row >> ELSE [sheet EXCEPT ![1] = row]

\* ws.insert_row(headers, 1) (line 151): the row goes first, the others move down.
insert_row(sheet, row) == << row >> \o sheet

\* insert_user_data (lines 78-127): ret is the returned bool or the raised
\* exception, rows are the rows append_row added to the worksheet.
insert_user_data(extracted_data, worksheet_title, now, remote_ws, remote_append) ==
  LET full_name == PyGet(extracted_data, "full_name", Null)
      phone_number == PyGet(extracted_data, "phone_number", Null)
      id_document == PyGet(extracted_data, "id_document", Null) IN
  IF IsExc(full_name) THEN [ret |-> full_name, rows |-> << >>]
  ELSE IF all_fields_empty(full_name, phone_number, id_document)
  THEN [ret |-> Bool(FALSE), rows |-> << >>]
  ELSE
    LET ws == get_worksheet(worksheet_title, remote_ws) IN
    IF IsExc(ws) THEN [ret |-> ws, rows |-> << >>]
    ELSE IF IsExc(remote_append) THEN [ret |-> remote_append, rows |-> << >>]
    ELSE [ret |-> Bool(TRUE),
          rows |-> << row_data(now, full_name, phone_number, id_document) >>]

\* headers (line 150)
headers == << Str("Timestamp"), Str("Full Name"), Str("Phone Number"), Str("ID Document") >>

\* ws.row_values(1): the cells of the first row, [] when there is none.
row_values_1(sheet) == IF Len(sheet) = 0 THEN << >> ELSE sheet[1].cells

\* The probe of lines 141-147: TRUE when setup_worksheet_headers returns
\* because headers exist; a failed read is swallowed by the bare except.
headers_exist(sheet, remote_read) ==
  IF IsExc(remote_read) THEN FALSE ELSE row_values_1(sheet) # << >>

(* -------------------------------- bounds ------------------------------- *)

NumRequests == 2
MaxClock == 1
MaxHeaderInserts == 2

Requests == 1 .. NumRequests

\* The seconds datetime.now() may show when a row is written.
Times == 0 .. MaxClock

(* ------------------------------ input sets ----------------------------- *)

\* Values that are not JSON objects.
NonObjects == { Null, Str("x"), Num(7), [t |-> "list"] }

KeyObjects ==
  ObjectsOver({"remoteJid", "participantLid"},
              [k \in {"remoteJid", "participantLid"} |->
                 IF k = "remoteJid"
                 THEN { Str(target_group_id), Str("573001234567@s.whatsapp.net"), Null }
                 ELSE { Str("11223344@lid"), Str(""), Null }])

MessageObjects ==
  ObjectsOver({"conversation"},
              [k \in {"conversation"} |-> { Str("Soy Carlos Ruiz, 3001234567"), Str(""), Null, Num(7) }])

DataObjects ==
  ObjectsOver({"key", "message"},
              [k \in {"key", "message"} |->
                 IF k = "key" THEN KeyObjects \cup { Null, Str("x") }
                 ELSE MessageObjects \cup { Null, Str("x") }])

\* Every payload request.get_json() may return.
Payloads ==
  ObjectsOver({"data"}, [k \in {"data"} |-> DataObjects \cup NonObjects])
    \cup NonObjects \cup { Str(""), Num(0) }

QualifyingPayload ==
  Obj([k \in {"data"} |->
    Obj([j \in {"key", "message"} |->
      IF j = "key"
      THEN Obj([i \in {"remoteJid", "participantLid"} |->
                 IF i = "remoteJid" THEN Str(target_group_id) ELSE Str("11223344@lid")])
      ELSE Obj([i \in {"conversation"} |-> Str("Soy Carlos Ruiz, 3001234567")])])])

OtherChannelPayload ==
  Obj([k \in {"data"} |->
    Obj([j \in {"key", "message"} |->
      IF j = "key"
      THEN Obj([i \in {"remoteJid", "participantLid"} |->
                 IF i = "remoteJid" THEN Str("573001234567@s.whatsapp.net") ELSE Str("11223344@lid")])
      ELSE Obj([i \in {"conversation"} |-> Str("Soy Carlos Ruiz, 3001234567")])])])

\* The payloads of the concurrent pipeline runs.
PipelinePayloads == { QualifyingPayload, OtherChannelPayload, EmptyObj }

FieldKeys == {"full_name", "phone_number", "id_document"}

ReplyObjects ==
  ObjectsOver(FieldKeys \cup {"note"},
              [k \in FieldKeys \cup {"note"} |->
                 CASE k = "full_name" -> { Null, Str(""), Str("Carlos Ruiz"), Num(7) }
                   [] k = "phone_number" -> { Null, Str(""), Str("3001234567") }
                   [] k = "id_document" -> { Null, Str("12345678"), Num(0) }
                   [] OTHER -> { Str("ok") }])

JsonText(v) == [kind |-> "json", value |-> v]
Prose == [kind |-> "prose", value |-> Null]
Fenced == [kind |-> "fenced", value |-> Null]
Answer(text) == [call |-> "ok", text |-> text]
CallFails == [call |-> "raise", text |-> Null]

\* Everything the AI capability may do.
AIBehaviours ==
  { CallFails, Answer(Null), Answer(Prose), Answer(Fenced) }
    \cup { Answer(JsonText(v)) : v \in ReplyObjects \cup NonObjects }

Reply(fn, pn, idd) ==
  Answer(JsonText(Obj([k \in FieldKeys |->
    CASE k = "full_name" -> fn [] k = "phone_number" -> pn [] OTHER -> idd])))

\* The AI behaviours of the concurrent pipeline runs.
PipelineAI ==
  { CallFails,
    Reply(Str("Carlos Ruiz"), Str("3001234567"), Null),
    Reply(Str(""), Null, Null) }

Envs ==
  [creds_path : { Null, Str("creds.json") },
   sheet_name : { Null, Str("Registro") },
   creds_file_exists : BOOLEAN]

OpenOutcomes == { RemoteOk } \cup OpenErrors
ApiOutcomes == { RemoteOk } \cup ApiErrors

HeaderRow == [cells |-> headers, by |-> 0]

(* --------------------------------- state ------------------------------- *)

VARIABLES
  env,              \* GOOGLE_SHEETS_CREDENTIALS_PATH, SHEET_NAME, the credentials file
  worksheet,        \* the rows of the first worksheet of the spreadsheet
  pc,               \* where each request is in webhook_handler
  payload,          \* webhook_handler: payload
  message_content,  \* webhook_handler: message_content
  extracted_data,   \* webhook_handler: extracted_data
  sheets_client,    \* webhook_handler: sheets_client
  saved_to_sheets,  \* webhook_handler: saved_to_sheets
  sheets_error,     \* webhook_handler: sheets_error
  response,         \* what webhook_handler returned
  ai_reply,         \* history: what the AI capability did for the request
  ai_calls,         \* history: calls of generate_content per request
  store_calls,      \* history: GSheetsClient constructions per request
  insert_ret,       \* history: what insert_user_data returned or raised
  appended,         \* history: rows append_row added for the request
  setup_pc,         \* where the setup_worksheet_headers call is
  header_inserts    \* history: header rows insert_row added

vars ==
  << env, worksheet, pc, payload, message_content, extracted_data,
     sheets_client, saved_to_sheets, sheets_error, response, ai_reply, ai_calls,
     store_calls, insert_ret, appended, setup_pc,
     header_inserts >>

reqVars ==
  << pc, payload, message_content, extracted_data, sheets_client,
     saved_to_sheets, sheets_error, response, ai_reply, ai_calls, store_calls,
     insert_ret, appended >>

setupVars == << setup_pc, header_inserts >>

Init ==
  /\ env \in Envs
  /\ worksheet = << >>
  /\ pc = [r \in Requests |-> "idle"]
  /\ payload = [r \in Requests |-> Missing]
  /\ message_content = [r \in Requests |-> Missing]
  /\ extracted_data = [r \in Requests |-> Missing]
  /\ sheets_client = [r \in Requests |-> Missing]
  /\ saved_to_sheets = [r \in Requests |-> FALSE]
  /\ sheets_error = [r \in Requests |-> Null]
  /\ response = [r \in Requests |-> Missing]
  /\ ai_reply = [r \in Requests |-> Missing]
  /\ ai_calls = [r \in Requests |-> 0]
  /\ store_calls = [r \in Requests |-> 0]
  /\ insert_ret = [r \in Requests |-> Missing]
  /\ appended = [r \in Requests |-> 0]
  /\ setup_pc = "idle"
  /\ header_inserts = 0

(* -------------------------------- main.py ------------------------------ *)

\* The 400 response of lines 41-47.
response_no_payload ==
  [status |-> 400, success |-> Missing, error |-> Str("No JSON payload received"),
   message_content |-> Missing, saved_to_sheets |-> FALSE,
   full_name |-> Null, phone_number |-> Null, id_document |-> Null,
   sheets_error |-> Missing]

\* The 200 response of lines 53-59.
response_ignored ==
  [status |-> 200, success |-> Missing,
   error |-> Str("Message does not meet processing criteria"),
   message_content |-> Missing, saved_to_sheets |-> FALSE,
   full_name |-> Null, phone_number |-> Null, id_document |-> Null,
   sheets_error |-> Missing]

\* Lines 90-91 with `is not None` for the truth test.
response_ok_not_none(content, saved, extracted, error) ==
  [status |-> 200, success |-> Bool(TRUE), error |-> Missing,
   message_content |-> content, saved_to_sheets |-> saved,
   full_name |-> extracted.m["full_name"],
   phone_number |-> extracted.m["phone_number"],
   id_document |-> extracted.m["id_document"],
   sheets_error |-> IF error # Null THEN error ELSE Missing]

\* The response of lines 82-93: sheets_error is added only when it is truthy.
response_ok(content, saved, extracted, error) ==
  [status |-> 200, success |-> Bool(TRUE), error |-> Missing,
   message_content |-> content, saved_to_sheets |-> saved,
   full_name |-> extracted.m["full_name"],
   phone_number |-> extracted.m["phone_number"],
   id_document |-> extracted.m["id_document"],
   sheets_error |-> IF Truthy(error) THEN error ELSE Missing]

\* The 500 response of lines 95-107.
response_error(e) ==
  [status |-> 500, success |-> Bool(FALSE), error |-> Str(e.msg),
   message_content |-> Missing, saved_to_sheets |-> FALSE,
   full_name |-> Null, phone_number |-> Null, id_document |-> Null,
   sheets_error |-> Missing]

\* Line 77 catching gspread's exceptions only.
sheets_except_gspread(e) == e.type \in {"SpreadsheetNotFound", "APIError"}

\* except Exception as sheets_e (line 77): the exceptions of the sheets block
\* that the inner handler catches.
sheets_except(e) == TRUE

\* Lines 38-59: read the payload, reject an empty one, validate it.
Receive(r, p) ==
  /\ pc[r] = "idle"
  /\ payload' = [payload EXCEPT ![r] = p]
  /\ IF ~Truthy(p)
     THEN /\ response' = [response EXCEPT ![r] = response_no_payload]
          /\ pc' = [pc EXCEPT ![r] = "done"]
          /\ UNCHANGED message_content
     ELSE LET m == process_message(p) IN
          /\ message_content' = [message_content EXCEPT ![r] = m]
          /\ IF IsExc(m)
             THEN /\ response' = [response EXCEPT ![r] = response_error(m)]
                  /\ pc' = [pc EXCEPT ![r] = "done"]
             ELSE IF m = Null
             THEN /\ response' = [response EXCEPT ![r] = response_ignored]
                  /\ pc' = [pc EXCEPT ![r] = "done"]
             ELSE /\ pc' = [pc EXCEPT ![r] = "extract"]
                  /\ UNCHANGED response
  /\ UNCHANGED << env, worksheet, extracted_data, sheets_client,
                  saved_to_sheets, sheets_error, ai_reply, ai_calls, store_calls,
                  insert_ret, appended, setupVars >>

\* Line 38 when request.get_json() raises (a body that is not JSON): the
\* outer except answers 500.
ReceiveBadBody(r) ==
  /\ pc[r] = "idle"
  /\ response' = [response EXCEPT ![r] = response_error(Exc("BadRequest", "400 Bad Request"))]
  /\ pc' = [pc EXCEPT ![r] = "done"]
  /\ UNCHANGED << env, worksheet, payload, message_content, extracted_data,
                  sheets_client, saved_to_sheets, sheets_error, ai_reply, ai_calls,
                  store_calls, insert_ret, appended, setupVars >>

\* Line 62: the one call of the AI capability.
Extract(r, ai) ==
  /\ pc[r] = "extract"
  /\ ai_reply' = [ai_reply EXCEPT ![r] = ai]
  /\ ai_calls' = [ai_calls EXCEPT ![r] = @ + 1]
  /\ LET d == extract_user_data_with_ai(ai) IN
     /\ extracted_data' = [extracted_data EXCEPT ![r] = d]
     /\ IF IsExc(d)
        THEN /\ response' = [response EXCEPT ![r] = response_error(d)]
             /\ pc' = [pc EXCEPT ![r] = "done"]
        ELSE /\ pc' = [pc EXCEPT ![r] = "sheets"]
             /\ UNCHANGED response
  /\ UNCHANGED << env, worksheet, payload, message_content, sheets_client,
                  saved_to_sheets, sheets_error, store_calls,
                  insert_ret, appended, setupVars >>

\* How the handler ends once the sheets block (lines 68-79) raised e.
SheetsRaised(r, e) ==
  IF sheets_except(e)
  THEN /\ sheets_error' = [sheets_error EXCEPT ![r] = Str(e.msg)]
       /\ response' = [response EXCEPT ![r] =
            response_ok(message_content[r], saved_to_sheets[r], extracted_data[r], Str(e.msg))]
  ELSE /\ response' = [response EXCEPT ![r] = response_error(e)]
       /\ UNCHANGED sheets_error

\* Line 69: sheets_client = GSheetsClient().
Construct(r, remote) ==
  /\ pc[r] = "sheets"
  /\ store_calls' = [store_calls EXCEPT ![r] = @ + 1]
  /\ LET c == GSheetsClient(env, remote) IN
     IF IsExc(c)
     THEN /\ SheetsRaised(r, c)
          /\ pc' = [pc EXCEPT ![r] = "done"]
          /\ UNCHANGED sheets_client
     ELSE /\ sheets_client' = [sheets_client EXCEPT ![r] = c]
          /\ pc' = [pc EXCEPT ![r] = "insert"]
          /\ UNCHANGED << sheets_error, response >>
  /\ UNCHANGED << env, worksheet, payload, message_content, extracted_data,
                  saved_to_sheets, ai_reply, ai_calls, insert_ret, appended,
                  setupVars >>

\* Lines 70-93: insert_user_data on the first worksheet, then the response.
Insert(r, now, remote_ws, remote_append) ==
  /\ pc[r] = "insert"
  /\ LET res == insert_user_data(extracted_data[r], Null, now, remote_ws, remote_append) IN
     /\ insert_ret' = [insert_ret EXCEPT ![r] = res.ret]
     /\ appended' = [appended EXCEPT ![r] = @ + Len(res.rows)]
     /\ worksheet' = IF res.rows = << >> THEN worksheet
                     ELSE append_row(worksheet, [cells |-> res.rows[1], by |-> r])
     /\ IF IsExc(res.ret)
        THEN /\ SheetsRaised(r, res.ret)
             /\ UNCHANGED saved_to_sheets
        ELSE /\ saved_to_sheets' = [saved_to_sheets EXCEPT ![r] = res.ret.b]
             /\ response' = [response EXCEPT ![r] =
                  response_ok(message_content[r], res.ret.b, extracted_data[r], sheets_error[r])]
             /\ UNCHANGED sheets_error
  /\ pc' = [pc EXCEPT ![r] = "done"]
  /\ UNCHANGED << env, payload, message_content, extracted_data,
                  sheets_client, ai_reply, ai_calls, store_calls, setupVars >>

(* ----------------------- setup_worksheet_headers ----------------------- *)

\* A call of GSheetsClient().setup_worksheet_headers() up to the probe of
\* row 1 (lines 137-147).
SetupProbe(remote_open, remote_ws, remote_read) ==
  /\ setup_pc = "idle"
  /\ header_inserts < MaxHeaderInserts
  /\ LET c == GSheetsClient(env, remote_open)
         ws == get_worksheet(Null, remote_ws) IN
     IF IsExc(c) \/ IsExc(ws) \/ headers_exist(worksheet, remote_read)
     THEN setup_pc' = "idle"
     ELSE setup_pc' = "insert"
  /\ UNCHANGED << env, worksheet, reqVars, header_inserts >>

\* ws.insert_row(headers, 1) (lines 150-151).
SetupInsert(remote_insert) ==
  /\ setup_pc = "insert"
  /\ setup_pc' = "idle"
  /\ IF IsExc(remote_insert)
     THEN UNCHANGED << worksheet, header_inserts >>
     ELSE /\ worksheet' = insert_row(worksheet, HeaderRow)
          /\ header_inserts' = header_inserts + 1
  /\ UNCHANGED << env, reqVars >>

(* ----------------------------- specifications -------------------------- *)

Next ==
  \/ \E r \in Requests, p \in PipelinePayloads : Receive(r, p)
  \/ \E r \in Requests : ReceiveBadBody(r)
  \/ \E r \in Requests, ai \in PipelineAI : Extract(r, ai)
  \/ \E r \in Requests, remote \in OpenOutcomes : Construct(r, remote)
  \/ \E r \in Requests, now \in Times, remote_ws \in ApiOutcomes, remote_append \in ApiOutcomes :
       Insert(r, now, remote_ws, remote_append)
  \/ \E remote_open \in OpenOutcomes, remote_ws \in ApiOutcomes, remote_read \in ApiOutcomes :
       SetupProbe(remote_open, remote_ws, remote_read)
  \/ \E remote_insert \in ApiOutcomes : SetupInsert(remote_insert)

Spec == Init /\ [][Next]_vars

\* process_message alone, over every payload.
NextValidate == \E p \in Payloads : Receive(1, p)

SpecValidate == Init /\ [][NextValidate]_vars

\* extract_user_data_with_ai alone, over everything the AI capability may do.
NextExtract ==
  \/ Receive(1, QualifyingPayload)
  \/ \E ai \in AIBehaviours : Extract(1, ai)

SpecExtract == Init /\ [][NextExtract]_vars

(* --------------------------------- claims ------------------------------ *)

\* The value at a path of keys in a payload; Missing when a key is absent or
\* an intermediate value is not an object.
RECURSIVE Lookup(_, _)
Lookup(v, path) ==
  IF path = << >> THEN v
  ELSE IF v.t # "obj" THEN Missing
  ELSE IF Head(path) \notin DOMAIN v.m THEN Missing
  ELSE Lookup(v.m[Head(path)], Tail(path))

\* A field is present when its key is there with a value other than JSON
\* null (Python's None, which is also what .get answers for an absent key).
Present(v) == v # Missing /\ v # Null

RemoteJidOf(p) == Lookup(p, << "data", "key", "remoteJid" >>)
ParticipantLidOf(p) == Lookup(p, << "data", "key", "participantLid" >>)
ConversationOf(p) == Lookup(p, << "data", "message", "conversation" >>)

Qualifies(p) ==
  /\ RemoteJidOf(p) = Str(target_group_id)
  /\ Present(ParticipantLidOf(p))
  /\ Present(ConversationOf(p))

Validated(p) == IF Qualifies(p) THEN ConversationOf(p) ELSE Null

\* C1: process_message returns the conversation value exactly when remoteJid
\* is the target channel, participantLid is present and conversation is
\* present; for every other payload, malformed ones included, it returns None
\* and raises nothing.  The handler stores that value as message_content.
C1_ValidateContract ==
  \A r \in Requests :
    payload[r] # Missing =>
      /\ process_message(payload[r]) = Validated(payload[r])
      /\ Truthy(payload[r]) => message_content[r] = Validated(payload[r])

\* C1 witness: a qualifying payload was validated and its conversation text
\* came back.
C1_Witness ==
  \E r \in Requests :
    /\ payload[r] # Missing
    /\ Qualifies(payload[r])
    /\ payload[r] # QualifyingPayload
    /\ message_content[r] = ConversationOf(payload[r])

NonEmptyStringOrNull(v) == v = Null \/ (v.t = "str" /\ v.s # "")

\* C2: extract_user_data_with_ai raises nothing and returns an object with
\* exactly the keys full_name, phone_number, id_document, each value a
\* non-empty string or null, whatever the AI capability did.
C2_ExtractContract ==
  \A r \in Requests :
    extracted_data[r] # Missing =>
      /\ extracted_data[r].t = "obj"
      /\ DOMAIN extracted_data[r].m = FieldKeys
      /\ \A k \in FieldKeys : NonEmptyStringOrNull(extracted_data[r].m[k])

Done(r) == pc[r] = "done"

\* The request passed validation (it is a qualifying request).
Qualifying(r) == payload[r] # Missing /\ Qualifies(payload[r])

Field(d, k) == d.m[k]

AllUnknown(d) == \A k \in FieldKeys : Field(d, k) = Null
AllFalsy(d) == \A k \in FieldKeys : ~Truthy(Field(d, k))

\* The rows of a worksheet that request r wrote.
RowsBy(sheet, r) == SelectSeq(sheet, LAMBDA row : row.by = r)
DataRows(sheet) == SelectSeq(sheet, LAMBDA row : row.by # 0)
HeaderRows(sheet) == SelectSeq(sheet, LAMBDA row : row.cells = headers)

\* C3 as stated: insert_user_data returns False and appends nothing when all
\* three fields are unknown, and returns True having appended exactly one row
\* when at least one field is not unknown.
C3_PersistAsStated ==
  \A r \in Requests :
    insert_ret[r] # Missing =>
      IF AllUnknown(extracted_data[r])
      THEN insert_ret[r] = Bool(FALSE) /\ appended[r] = 0
      ELSE insert_ret[r] = Bool(TRUE) /\ appended[r] = 1

\* C3 amended: insert_user_data returns False and appends nothing when all
\* three fields are falsy (None, "" or 0); when a field is truthy it either
\* returns True having appended exactly one row, or raises (worksheet lookup
\* or append failed) having appended none.  The worksheet holds exactly the
\* rows it appended.
C3_PersistDecision ==
  \A r \in Requests :
    insert_ret[r] # Missing =>
      /\ IF AllFalsy(extracted_data[r])
         THEN insert_ret[r] = Bool(FALSE) /\ appended[r] = 0
         ELSE \/ insert_ret[r] = Bool(TRUE) /\ appended[r] = 1
              \/ IsExc(insert_ret[r]) /\ appended[r] = 0
      /\ Len(RowsBy(worksheet, r)) = appended[r]

\* C3 witness: one insert_user_data call persisted a row and another one
\* skipped a result that is not all-unknown.
C3_Witness ==
  \E r, q \in Requests :
    /\ insert_ret[r] = Bool(TRUE) /\ appended[r] = 1
    /\ insert_ret[q] = Bool(FALSE) /\ ~AllUnknown(extracted_data[q])

\* C4: a request whose event does not qualify never calls the AI capability
\* nor the store (no client, no row), and ends saved=false; when the
\* validator ran and answered None the response is the "ignored" one.
C4_IgnoredNoCalls ==
  \A r \in Requests :
    (payload[r] # Missing /\ ~Qualifies(payload[r])) =>
      /\ Done(r)
      /\ ai_calls[r] = 0
      /\ store_calls[r] = 0
      /\ sheets_client[r] = Missing
      /\ appended[r] = 0
      /\ RowsBy(worksheet, r) = << >>
      /\ response[r].saved_to_sheets = FALSE
      /\ message_content[r] = Null => response[r] = response_ignored

\* C4 witness: an event of another channel was ignored while another request
\* went through the AI call and the store.
C4_Witness ==
  \E r, q \in Requests :
    /\ payload[r] = OtherChannelPayload
    /\ response[r] = response_ignored
    /\ ai_calls[q] = 1 /\ store_calls[q] = 1 /\ appended[q] = 1

\* The store failed for the request: the client could not be constructed, or
\* insert_user_data raised.
StoreFailed(r) ==
  /\ store_calls[r] > 0
  /\ Done(r)
  /\ sheets_client[r] = Missing \/ (insert_ret[r] # Missing /\ IsExc(insert_ret[r]))

\* C5: a qualifying request never ends with status 500, whatever the AI and
\* the store did: its response carries the three fields extraction returned
\* and a boolean save flag, which is false when the store failed.
C5_NeverHardFailure ==
  \A r \in Requests :
    (Done(r) /\ Qualifying(r)) =>
      /\ response[r].status = 200
      /\ response[r].saved_to_sheets \in BOOLEAN
      /\ extracted_data[r] # Missing
      /\ \A k \in FieldKeys : response[r][k] = Field(extracted_data[r], k)
      /\ StoreFailed(r) => response[r].saved_to_sheets = FALSE

\* C5 witness: the extraction found fields, the append failed, and the
\* response still carries the fields with saved=false.
C5_Witness ==
  \E r \in Requests :
    /\ Done(r) /\ Qualifying(r)
    /\ insert_ret[r] \in ApiErrors
    /\ response[r].full_name = Str("Carlos Ruiz")
    /\ response[r].saved_to_sheets = FALSE
    /\ \E q \in Requests : Done(q) /\ ai_reply[q] = CallFails /\ sheets_client[q] = Missing

\* The deployment defect of GSheetsClient.__init__: a configuration value or
\* the credentials file is missing.
ConfigDefect(e) ==
  ~Truthy(e.creds_path) \/ ~Truthy(e.sheet_name) \/ ~e.creds_file_exists

\* C6 as stated: a gateway construction defect is a hard failure of the
\* request (status 500), not the degraded "not saved" outcome.
C6_DefectPropagates ==
  \A r \in Requests :
    (Done(r) /\ store_calls[r] > 0 /\ ConfigDefect(env)) => response[r].status = 500

\* C6 amended: under a construction defect GSheetsClient() raises (no client),
\* and webhook_handler absorbs it like every other store failure: status 200,
\* saved=false, the extracted fields, and the defect named in sheets_error.
\* No failure of a stage makes a qualifying request end with status 500.
C6_DefectAbsorbed ==
  \A r \in Requests :
    /\ (Done(r) /\ store_calls[r] > 0 /\ ConfigDefect(env)) =>
         /\ sheets_client[r] = Missing
         /\ insert_ret[r] = Missing
         /\ response[r].status = 200
         /\ response[r].saved_to_sheets = FALSE
         /\ response[r].sheets_error \in
              { Str("GOOGLE_SHEETS_CREDENTIALS_PATH and SHEET_NAME must be defined"),
                Str("Credentials file not found") }
         /\ \A k \in FieldKeys : response[r][k] = Field(extracted_data[r], k)
    /\ (Done(r) /\ Qualifying(r)) => response[r].status # 500

\* C6 witness: the credentials file is missing, the extraction found fields,
\* and the request ended 200 with the defect in sheets_error.
C6_Witness ==
  \E r \in Requests :
    /\ Done(r) /\ store_calls[r] = 1
    /\ Truthy(env.creds_path) /\ Truthy(env.sheet_name) /\ ~env.creds_file_exists
    /\ response[r].status = 200
    /\ response[r].full_name = Str("Carlos Ruiz")
    /\ response[r].sheets_error = Str("Credentials file not found")

\* C7: over any sequence of setup_worksheet_headers and insert_user_data
\* calls, failed probes of row 1 included, the header row is inserted at most
\* once and the worksheet never holds it twice.
C7_HeaderAtMostOnce ==
  /\ header_inserts <= 1
  /\ Len(HeaderRows(worksheet)) <= 1

IsPrefix(a, b) == Len(a) <= Len(b) /\ SubSeq(b, 1, Len(a)) = a

\* C8: the store is append-only.  Every step keeps the data rows written so
\* far, unchanged and in order, and a persist puts its row after all rows that
\* were there; no step removes or rewrites a row.
C8_AppendOnly ==
  [][ /\ IsPrefix(DataRows(worksheet), DataRows(worksheet'))
      /\ Len(worksheet') >= Len(worksheet)
      /\ \A r \in Requests :
           appended'[r] > appended[r] =>
             /\ Len(worksheet') = Len(worksheet) + 1
             /\ IsPrefix(worksheet, worksheet')
             /\ worksheet'[Len(worksheet')].by = r ]_vars

\* C8 witness: headers were inserted above a data row, and a second data row
\* was appended below.
C8_Witness ==
  /\ header_inserts = 1
  /\ Len(worksheet) = 3
  /\ worksheet[1] = HeaderRow
  /\ worksheet[2].by # 0 /\ worksheet[3].by # 0
  /\ worksheet[2].by # worksheet[3].by

\* C9: whatever the interleaving, a finished request has exactly one row in
\* the worksheet when it reported saved=true and none otherwise, that row
\* holds its own fields, and its response is made of its own event and its
\* own AI reply only.
C9_Independent ==
  \A r \in Requests :
    Done(r) =>
      /\ Len(RowsBy(worksheet, r)) = IF response[r].saved_to_sheets THEN 1 ELSE 0
      /\ Qualifying(r) =>
           /\ response[r].message_content = ConversationOf(payload[r])
           /\ \A k \in FieldKeys :
                response[r][k] = Field(extract_user_data_with_ai(ai_reply[r]), k)
           /\ response[r].saved_to_sheets = (insert_ret[r] = Bool(TRUE))
           /\ \A i \in 1 .. Len(worksheet) :
                worksheet[i].by = r =>
                  \E now \in Times :
                    worksheet[i].cells =
                      row_data(now, response[r].full_name, response[r].phone_number,
                               response[r].id_document)

\* C9 witness: every request ran to the end and two of them saved a row, in
\* an order that is not the order of their numbers.
C9_Witness ==
  /\ \A r \in Requests : Done(r)
  /\ Len(DataRows(worksheet)) >= 2
  /\ DataRows(worksheet)[1].by > DataRows(worksheet)[2].by

\* C10 as stated: a qualifying request whose extraction is all-unknown ends
\* saved=false without a persistence error, whatever the store's state; an
\* error descriptor appears only when persisting a result with a known field
\* failed.
C10_SkippedAsStated ==
  \A r \in Requests :
    (Done(r) /\ Qualifying(r)) =>
      /\ AllUnknown(extracted_data[r]) =>
           response[r].saved_to_sheets = FALSE /\ response[r].sheets_error = Missing
      /\ response[r].sheets_error # Missing =>
           StoreFailed(r) /\ ~AllUnknown(extracted_data[r])

\* C10 amended: a qualifying request whose extraction is all-unknown ends
\* saved=false with no row; its response carries no error descriptor when the
\* client was constructed, and carries str(e) when GSheetsClient() raised e
\* with a non-empty message.  A descriptor appears only when the construction
\* failed, or when insert_user_data raised for a result with a truthy field.
C10_SkippedUnlessConstructionFails ==
  \A r \in Requests :
    (Done(r) /\ Qualifying(r)) =>
      /\ AllUnknown(extracted_data[r]) =>
           /\ response[r].saved_to_sheets = FALSE
           /\ appended[r] = 0
           /\ sheets_client[r] # Missing =>
                insert_ret[r] = Bool(FALSE) /\ response[r].sheets_error = Missing
           /\ sheets_client[r] = Missing =>
                response[r].sheets_error =
                  IF sheets_error[r] = Str("") THEN Missing ELSE sheets_error[r]
      /\ response[r].sheets_error # Missing =>
           \/ sheets_client[r] = Missing
           \/ IsExc(insert_ret[r]) /\ ~AllFalsy(extracted_data[r])

\* C10 witness: the AI call failed, the spreadsheet could not be opened, and
\* the response of the all-unknown result carries the error descriptor.
C10_Witness ==
  \E r \in Requests :
    /\ Done(r) /\ Qualifying(r)
    /\ ai_reply[r] = CallFails
    /\ AllUnknown(extracted_data[r])
    /\ sheets_client[r] = Missing
    /\ response[r].sheets_error = Str("invalid_grant")

====
